---- MODULE Spec2Model ----
(***************************************************************************)
(* Pattern-match exhaustiveness and usefulness checking of                 *)
(* crates/compiler/exhaustive/src/lib.rs (after Maranget, "Warnings for    *)
(* pattern matching").                                                     *)
(*                                                                         *)
(* Rust vectors are sequences; a row's "current" column is its LAST        *)
(* element (row.pop(), row.last()).  Option<T> is a sequence of zero or    *)
(* one T.  A call that can hit internal_error!/panic! returns              *)
(* Returned(value) or Panicked.                                            *)
(***************************************************************************)
EXTENDS Integers, Sequences, FiniteSets, TLC

(***************************************************************************)
(* Bounds of the explored input space.                                     *)
(***************************************************************************)
\* most rows (branches) in a matrix
MaxRows == 3
\* largest minimum length of a list pattern
MaxListLen == 2
\* number of distinct integer literals that patterns use
NumLits == 2

(***************************************************************************)
(* Data model (lib.rs 14-133).                                             *)
(***************************************************************************)
Repeat(x, n) == [i \in 1..n |-> x]

Front(s) == SubSeq(s, 1, Len(s) - 1)

Last(s) == s[Len(s)]

\* struct Ctor { name, tag_id, arity }
CtorDesc(name, tag_id, arity) == [name |-> name, tag_id |-> tag_id, arity |-> arity]

\* struct Union { alternatives, render_as }
Union(alternatives, render_as) == [alternatives |-> alternatives, render_as |-> render_as]

\* Union::newtype_wrapper
newtype_wrapper(name, arity) == Union(<<CtorDesc(name, 0, arity)>>, "Tag")

\* enum Pattern
Anything == [k |-> "Anything"]

Literal(l) == [k |-> "Literal", lit |-> l]

Ctor(union, tag_id, args) == [k |-> "Ctor", union |-> union, tag_id |-> tag_id, args |-> args]

List(arity, args) == [k |-> "List", arity |-> arity, args |-> args]

\* enum ListArity
Exact(n) == [kind |-> "Exact", n |-> n]

Slice(before, after) == [kind |-> "Slice", before |-> before, after |-> after]

\* outcome of a call that may abort with internal_error!/panic!
Returned(v) == [panic |-> FALSE, val |-> v]

Panicked == [panic |-> TRUE]

\* ListArity::min_len
min_len(self) ==
    IF self.kind = "Exact" THEN self.n ELSE self.before + self.after

\* mutant: an exact-sized pattern never covers a slice, which also matches
\* longer lists
covers_arity_exact_never_covers_slice(self, other) ==
    CASE self.kind = "Exact" /\ other.kind = "Exact" -> self.n = other.n
      [] self.kind = "Exact" /\ other.kind = "Slice" -> FALSE
      [] self.kind = "Slice" /\ other.kind = "Exact" ->
            self.before + self.after <= other.n
      [] self.kind = "Slice" /\ other.kind = "Slice" ->
            self.before + self.after <= other.before + other.after

\* ListArity::covers_arity
covers_arity(self, other) ==
    CASE self.kind = "Exact" /\ other.kind = "Exact" -> self.n = other.n
      [] self.kind = "Exact" /\ other.kind = "Slice" ->
            self.n = other.before + other.after
      [] self.kind = "Slice" /\ other.kind = "Exact" ->
            self.before + self.after <= other.n
      [] self.kind = "Slice" /\ other.kind = "Slice" ->
            self.before + self.after <= other.before + other.after

(***************************************************************************)
(* collect_ctors, is_complete (lib.rs 554-588).                            *)
(***************************************************************************)
\* mutant: the scan stops after the first row
collect_ctors_first_row_only(matrix) ==
    IF matrix # <<>> /\ Head(matrix) # <<>> /\ Last(Head(matrix)).k = "Ctor"
    THEN [id \in {Last(Head(matrix)).tag_id} |-> Last(Head(matrix)).union]
    ELSE [id \in {} |-> 0]

\* MutMap<TagId, Union> as a function; a later row overwrites an earlier one
collect_ctors(matrix) ==
    LET hits(id) == {i \in 1..Len(matrix) :
                        /\ matrix[i] # <<>>
                        /\ Last(matrix[i]).k = "Ctor"
                        /\ Last(matrix[i]).tag_id = id}
        ids == {Last(matrix[i]).tag_id : i \in {j \in 1..Len(matrix) :
                        matrix[j] # <<>> /\ Last(matrix[j]).k = "Ctor"}}
        latest(id) == CHOOSE i \in hits(id) : \A j \in hits(id) : j <= i
    IN  [id \in ids |-> Last(matrix[latest(id)]).union]

\* ctors.iter().next(): the union of the entry the map yields first.  Which
\* entry that is depends on the hasher and on the table's history, neither of
\* which this code fixes: every entry can be the first, so this is the set
\* of the unions the call can give.  (All entries of a well-typed column
\* carry the same union.)
first_entry(ctors) == {ctors[id] : id \in DOMAIN ctors}

Yes(alternatives) == [yes |-> TRUE, alternatives |-> alternatives]

No == [yes |-> FALSE]

\* mutant: the column is never seen as complete
is_complete_always_no(matrix) == {No}

\* the values the call can return, one for each union first_entry can give
is_complete(matrix) ==
    LET ctors == collect_ctors(matrix)
        length == Cardinality(DOMAIN ctors)
    IN  IF length = 0 THEN {No}
        ELSE {IF length = Len(union.alternatives) THEN Yes(union.alternatives) ELSE No :
                 union \in first_entry(ctors)}

(***************************************************************************)
(* Specialization kernels (lib.rs 413-545).                                *)
(***************************************************************************)
\* mutant: every row survives, whatever its last pattern
specialize_row_by_anything_keeps_all(row) ==
    IF row # <<>> THEN <<Front(row)>> ELSE <<>>

\* Option<Row>: <<>> is None, <<row>> is Some(row)
specialize_row_by_anything(row) ==
    IF row # <<>> /\ Last(row).k = "Anything" THEN <<Front(row)>> ELSE <<>>

\* mutant: the tag comparison is inverted
specialize_row_by_ctor_other_tag(tag_id, arity, row) ==
    IF row = <<>> THEN Panicked
    ELSE LET head == Last(row)
             patterns == Front(row)
         IN  CASE head.k = "Ctor" ->
                    IF head.tag_id # tag_id
                    THEN Returned(<<head.args \o patterns>>)
                    ELSE Returned(<<>>)
               [] head.k = "Anything" ->
                    Returned(<<Repeat(Anything, arity) \o patterns>>)
               [] head.k = "List" -> Panicked
               [] head.k = "Literal" -> Panicked

\* mutant: a wildcard row is dropped instead of expanded
specialize_row_by_ctor_drops_anything(tag_id, arity, row) ==
    IF row = <<>> THEN Panicked
    ELSE LET head == Last(row)
             patterns == Front(row)
         IN  CASE head.k = "Ctor" ->
                    IF head.tag_id = tag_id
                    THEN Returned(<<head.args \o patterns>>)
                    ELSE Returned(<<>>)
               [] head.k = "Anything" -> Returned(<<>>)
               [] head.k = "List" -> Panicked
               [] head.k = "Literal" -> Panicked

specialize_row_by_ctor(tag_id, arity, row) ==
    IF row = <<>> THEN Panicked
    ELSE LET head == Last(row)
             patterns == Front(row)
         IN  CASE head.k = "Ctor" ->
                    IF head.tag_id = tag_id
                    THEN Returned(<<head.args \o patterns>>)
                    ELSE Returned(<<>>)
               [] head.k = "Anything" ->
                    Returned(<<Repeat(Anything, arity) \o patterns>>)
               [] head.k = "List" -> Panicked
               [] head.k = "Literal" -> Panicked

\* mutant: the arguments go in front of the remaining columns, as in
\* specialize_row_by_ctor, while is_useful extends the vector at the back
ctor2_row_args_in_front(tag_id, arity, row) ==
    IF row = <<>> THEN Panicked
    ELSE LET head == Last(row)
             patterns == Front(row)
         IN  CASE head.k = "Ctor" ->
                    IF head.tag_id = tag_id
                    THEN Returned(<<head.args \o patterns>>)
                    ELSE Returned(<<>>)
               [] head.k = "Anything" ->
                    Returned(<<Repeat(Anything, arity) \o patterns>>)
               [] head.k = "List" -> Panicked
               [] head.k = "Literal" -> Panicked

\* mutant: a wildcard row is dropped instead of expanded
ctor2_row_drops_anything(tag_id, arity, row) ==
    IF row = <<>> THEN Panicked
    ELSE LET head == Last(row)
             patterns == Front(row)
         IN  CASE head.k = "Ctor" ->
                    IF head.tag_id = tag_id
                    THEN Returned(<<patterns \o head.args>>)
                    ELSE Returned(<<>>)
               [] head.k = "Anything" -> Returned(<<>>)
               [] head.k = "List" -> Panicked
               [] head.k = "Literal" -> Panicked

\* one iteration of the drain loop of specialize_row_by_ctor2
ctor2_row(tag_id, arity, row) ==
    IF row = <<>> THEN Panicked
    ELSE LET head == Last(row)
             patterns == Front(row)
         IN  CASE head.k = "Ctor" ->
                    IF head.tag_id = tag_id
                    THEN Returned(<<patterns \o head.args>>)
                    ELSE Returned(<<>>)
               [] head.k = "Anything" ->
                    Returned(<<patterns \o Repeat(Anything, arity)>>)
               [] head.k = "List" -> Panicked
               [] head.k = "Literal" -> Panicked

\* one iteration of the drain loop of specialize_row_by_list
list_row(spec_arity, row) ==
    IF row = <<>> THEN Panicked
    ELSE LET head == Last(row)
             row_patterns == Front(row)
         IN  CASE head.k = "List" ->
                    LET this_arity == head.arity
                        args == head.args
                    IN  IF ~covers_arity(this_arity, spec_arity) THEN Returned(<<>>)
                        ELSE IF min_len(spec_arity) # min_len(this_arity)
                        THEN \* debug_assert!(spec_arity.min_len() > this_arity.min_len())
                             IF min_len(spec_arity) < min_len(this_arity) THEN Panicked
                             ELSE IF this_arity.kind = "Exact" THEN Panicked
                             ELSE IF \/ this_arity.before > Len(args)
                                     \/ min_len(this_arity) - this_arity.after > Len(args)
                             THEN Panicked \* slice index out of range
                             ELSE LET before == SubSeq(args, 1, this_arity.before)
                                      after == SubSeq(args,
                                                  min_len(this_arity) - this_arity.after + 1,
                                                  Len(args))
                                      num_extra_wildcards ==
                                          min_len(spec_arity) - min_len(this_arity)
                                  IN  Returned(<<row_patterns \o before
                                                  \o Repeat(Anything, num_extra_wildcards)
                                                  \o after>>)
                        ELSE Returned(<<row_patterns \o args>>)
               [] head.k = "Anything" ->
                    Returned(<<row_patterns \o Repeat(Anything, min_len(spec_arity))>>)
               [] head.k = "Ctor" -> Panicked
               [] head.k = "Literal" -> Panicked

RECURSIVE Concat(_)
\* Iterator::flatten / filter_map(..).collect() over a sequence of sequences
Concat(seqs) ==
    IF seqs = <<>> THEN <<>> ELSE Head(seqs) \o Concat(Tail(seqs))

AnyPanic(rs) == \E i \in 1..Len(rs) : rs[i].panic

Vals(rs) == [i \in 1..Len(rs) |-> rs[i].val]

\* for row in old_matrix.drain(..) { ... matrix.push(..) }: the new contents
\* of `matrix`, where steps[i] is the outcome of the iteration on row i
drain(steps, matrix) ==
    IF AnyPanic(steps) THEN Panicked
    ELSE Returned(matrix \o Concat(Vals(steps)))

specialize_row_by_ctor2(tag_id, arity, old_matrix, matrix) ==
    drain([i \in 1..Len(old_matrix) |-> ctor2_row(tag_id, arity, old_matrix[i])], matrix)

specialize_row_by_list(spec_arity, old_matrix, matrix) ==
    drain([i \in 1..Len(old_matrix) |-> list_row(spec_arity, old_matrix[i])], matrix)

(***************************************************************************)
(* Exhaustiveness (lib.rs 167-290).                                        *)
(***************************************************************************)
\* mutant: the membership test is inverted
is_missing_inverted(union, ctors, ctor) ==
    IF ctor.tag_id \notin DOMAIN ctors THEN <<>>
    ELSE <<Ctor(union, ctor.tag_id, Repeat(Anything, ctor.arity))>>

\* mutant: the witness gets no arguments
is_missing_no_args(union, ctors, ctor) ==
    IF ctor.tag_id \in DOMAIN ctors THEN <<>>
    ELSE <<Ctor(union, ctor.tag_id, <<>>)>>

\* Option<Pattern>: <<>> is None, <<p>> is Some(p)
is_missing(union, ctors, ctor) ==
    IF ctor.tag_id \in DOMAIN ctors THEN <<>>
    ELSE <<Ctor(union, ctor.tag_id, Repeat(Anything, ctor.arity))>>

\* mutant: the two halves of the split are swapped
recover_ctor_swapped_halves(union, tag_id, arity, patterns) ==
    IF arity > Len(patterns) THEN Panicked
    ELSE LET args == SubSeq(patterns, arity + 1, Len(patterns))
             rest == SubSeq(patterns, 1, arity)
         IN  Returned(Append(rest, Ctor(union, tag_id, args)))

\* mutant: every pattern of the row becomes an argument, none is kept as a
\* remaining column
recover_ctor_no_rest(union, tag_id, arity, patterns) ==
    IF arity > Len(patterns) THEN Panicked
    ELSE Returned(<<Ctor(union, tag_id, patterns)>>)

recover_ctor(union, tag_id, arity, patterns) ==
    IF arity > Len(patterns) THEN Panicked \* Vec::split_off: `at > len`
    ELSE LET rest == SubSeq(patterns, arity + 1, Len(patterns))
             args == SubSeq(patterns, 1, arity)
         IN  Returned(Append(rest, Ctor(union, tag_id, args)))

RECURSIVE is_exhaustive(_, _)
\* the outcomes the call can have (Returned(rows) or Panicked), one for each
\* way the maps of the call and of its recursive calls yield their first entry
is_exhaustive(matrix, n) ==
    IF matrix = <<>> THEN {Returned(<<Repeat(Anything, n)>>)}
    ELSE IF n = 0 THEN {Returned(<<>>)}
    ELSE
      LET ctors == collect_ctors(matrix)
          num_seen == Cardinality(DOMAIN ctors)
          by_anything ==
              Concat([i \in 1..Len(matrix) |-> specialize_row_by_anything(matrix[i])])
      IN
      IF num_seen = 0 THEN
          {IF rest.panic THEN Panicked
           ELSE Returned([i \in 1..Len(rest.val) |-> Append(rest.val[i], Anything)]) :
              rest \in is_exhaustive(by_anything, n - 1)}
      ELSE
          UNION {
            LET alt_list == alts.alternatives
                num_alts == Len(alt_list)
            IN
            IF num_seen < num_alts THEN
                LET last == Concat([i \in 1..num_alts |->
                                       is_missing(alts, ctors, alt_list[i])])
                IN  {IF rest.panic THEN Panicked
                     ELSE Returned(Concat([l \in 1..Len(last) |->
                              [r \in 1..Len(rest.val) |-> Append(rest.val[r], last[l])]])) :
                        rest \in is_exhaustive(by_anything, n - 1)}
            ELSE
                LET is_alt_exhaustive(ctor) ==
                        LET specs == [i \in 1..Len(matrix) |->
                                specialize_row_by_ctor(ctor.tag_id, ctor.arity, matrix[i])]
                        IN  IF AnyPanic(specs) THEN {Panicked}
                            ELSE {IF rest.panic THEN Panicked
                                  ELSE LET result == [i \in 1..Len(rest.val) |->
                                               recover_ctor(alts, ctor.tag_id,
                                                            ctor.arity, rest.val[i])]
                                       IN  IF AnyPanic(result) THEN Panicked
                                           ELSE Returned(Vals(result)) :
                                     rest \in is_exhaustive(Concat(Vals(specs)),
                                                            ctor.arity + n - 1)}
                    \* flat_map(is_alt_exhaustive) from alternative i on
                    from[i \in 1..(num_alts + 1)] ==
                        IF i > num_alts THEN {Returned(<<>>)}
                        ELSE UNION {IF a.panic THEN {Panicked}
                                    ELSE {IF b.panic THEN Panicked
                                          ELSE Returned(a.val \o b.val) : b \in from[i + 1]} :
                                       a \in is_alt_exhaustive(alt_list[i])}
                IN  from[1]
            : alts \in first_entry(ctors)}

\* Error::Incomplete(region, context, witnesses)
Incomplete(region, context, heads) ==
    [error |-> "Incomplete", region |-> region, context |-> context, heads |-> heads]

\* Result<(), Vec<Error>>
Ok == [tag |-> "Ok"]

Err(errors) == [tag |-> "Err", errors |-> errors]

RECURSIVE SumLen(_)
SumLen(rows) == IF rows = <<>> THEN 0 ELSE Len(Head(rows)) + SumLen(Tail(rows))

\* cfg!(debug_assertions): the debug_assert! of check is compiled in
debug_assertions == TRUE

\* the outcomes the call can have, one for each outcome of is_exhaustive
check(region, context, matrix) ==
    {IF bad_patterns.panic THEN Panicked
     ELSE IF bad_patterns.val # <<>> THEN
         IF debug_assertions /\ SumLen(bad_patterns.val) # Len(bad_patterns.val)
         THEN Panicked
         ELSE IF \E i \in 1..Len(bad_patterns.val) : bad_patterns.val[i] = <<>>
         THEN Panicked \* Vec::remove(0) on an empty row
         ELSE LET heads == [i \in 1..Len(bad_patterns.val) |-> bad_patterns.val[i][1]]
              IN  Returned(Err(<<Incomplete(region, context, heads)>>))
     ELSE Returned(Ok) :
        bad_patterns \in is_exhaustive(matrix, 1)}

(***************************************************************************)
(* Usefulness (lib.rs 293-408).                                            *)
(***************************************************************************)
\* one iteration of the drain loop of the Complete::No arm
anything_row(row) ==
    IF row # <<>> /\ Last(row).k = "Anything" THEN Returned(<<Front(row)>>)
    ELSE Returned(<<>>)

\* mutant: a wildcard row is dropped by the Literal arm
literal_row_drops_anything(literal, row) ==
    IF row = <<>> THEN Panicked
    ELSE LET head == Last(row)
             patterns == Front(row)
         IN  CASE head.k = "Literal" ->
                    IF head.lit = literal THEN Returned(<<patterns>>) ELSE Returned(<<>>)
               [] head.k = "Anything" -> Returned(<<>>)
               [] head.k = "List" -> Panicked
               [] head.k = "Ctor" -> Panicked

\* one iteration of the drain loop of the Literal arm
literal_row(literal, row) ==
    IF row = <<>> THEN Panicked
    ELSE LET head == Last(row)
             patterns == Front(row)
         IN  CASE head.k = "Literal" ->
                    IF head.lit = literal THEN Returned(<<patterns>>) ELSE Returned(<<>>)
               [] head.k = "Anything" -> Returned(<<patterns>>)
               [] head.k = "List" -> Panicked
               [] head.k = "Ctor" -> Panicked

RECURSIVE is_useful(_, _)
\* each turn of 'outer is one unfolding; `matrix` is empty at the top of
\* every turn, old_matrix holds the rows.  The value is the set of the
\* outcomes the call can have, one for each value is_complete can return.
is_useful(old_matrix, vector) ==
    IF old_matrix = <<>> THEN {Returned(TRUE)}
    ELSE IF vector = <<>> THEN {Returned(FALSE)}
    ELSE
      LET first_pattern == Last(vector)
          popped == Front(vector)
      IN
      CASE first_pattern.k = "Ctor" ->
              LET matrix == specialize_row_by_ctor2(first_pattern.tag_id,
                                Len(first_pattern.args), old_matrix, <<>>)
              IN  IF matrix.panic THEN {Panicked}
                  ELSE is_useful(matrix.val, popped \o first_pattern.args)
        [] first_pattern.k = "List" ->
              LET matrix == specialize_row_by_list(first_pattern.arity, old_matrix, <<>>)
              IN  IF matrix.panic THEN {Panicked}
                  ELSE is_useful(matrix.val, popped \o first_pattern.args)
        [] first_pattern.k = "Anything" ->
              UNION {
                IF ~complete.yes THEN
                    LET matrix == drain([i \in 1..Len(old_matrix) |->
                                            anything_row(old_matrix[i])], <<>>)
                    IN  is_useful(matrix.val, popped)
                ELSE
                    LET alternatives == complete.alternatives
                        alt_useful(alternative) ==
                            LET matrix == specialize_row_by_ctor2(alternative.tag_id,
                                              alternative.arity, old_matrix, <<>>)
                            IN  IF matrix.panic THEN {Panicked}
                                ELSE is_useful(matrix.val,
                                       popped \o Repeat(Anything, alternative.arity))
                        \* the for loop from alternative i on
                        from[i \in 1..(Len(alternatives) + 1)] ==
                            IF i > Len(alternatives) THEN {Returned(FALSE)}
                            ELSE UNION {IF r.panic THEN {Panicked}
                                        ELSE IF r.val THEN {Returned(TRUE)}
                                        ELSE from[i + 1] :
                                           r \in alt_useful(alternatives[i])}
                    IN  from[1]
                : complete \in is_complete(old_matrix)}
        [] first_pattern.k = "Literal" ->
              LET matrix == drain([i \in 1..Len(old_matrix) |->
                                      literal_row(first_pattern.lit, old_matrix[i])], <<>>)
              IN  IF matrix.panic THEN {Panicked}
                  ELSE is_useful(matrix.val, popped)

(***************************************************************************)
(* The inputs the type checker supplies: complete unions, and well-typed   *)
(* patterns over them.  A column type is a union type (Bool, Opt, Shape,   *)
(* the newtype Pair), the integers (Int) or the lists of Bool (List).      *)
(***************************************************************************)
\* the alternatives of a union type, each with the types of its arguments
TypeAlts(t) ==
    CASE t = "Bool" -> << [ctor |-> CtorDesc("True", 0, 0), arg_types |-> <<>>],
                          [ctor |-> CtorDesc("False", 1, 0), arg_types |-> <<>>] >>
      [] t = "Opt" -> << [ctor |-> CtorDesc("Some", 0, 1), arg_types |-> <<"Bool">>],
                         [ctor |-> CtorDesc("None", 1, 0), arg_types |-> <<>>] >>
      [] t = "Shape" -> << [ctor |-> CtorDesc("Dot", 0, 0), arg_types |-> <<>>],
                           [ctor |-> CtorDesc("Box", 1, 1), arg_types |-> <<"Bool">>],
                           [ctor |-> CtorDesc("Seg", 2, 2),
                            arg_types |-> <<"Bool", "Bool">>] >>
      [] t = "Pair" -> << [ctor |-> newtype_wrapper("Pair", 2).alternatives[1],
                           arg_types |-> <<"Bool", "Bool">>] >>

UnionTypes == {"Bool", "Opt", "Shape", "Pair"}

UnionOf(t) == Union([i \in 1..Len(TypeAlts(t)) |-> TypeAlts(t)[i].ctor], "Tag")

ListArities ==
    {Exact(n) : n \in 0..MaxListLen}
      \cup {Slice(l, r) : l \in 0..MaxListLen, r \in 0..MaxListLen}

RECURSIVE Pats(_), Rows(_)
\* the well-typed patterns of a type
Pats(t) ==
    {Anything} \cup
    CASE t = "Int" -> {Literal(l) : l \in 1..NumLits}
      [] t = "List" -> {List(a, Repeat(Anything, min_len(a))) :
                          a \in {b \in ListArities : min_len(b) <= MaxListLen}}
      [] OTHER -> UNION {{Ctor(UnionOf(t), TypeAlts(t)[i].ctor.tag_id, args) :
                            args \in Rows(TypeAlts(t)[i].arg_types)} :
                         i \in 1..Len(TypeAlts(t))}

\* the well-typed rows over a sequence of column types
Rows(types) ==
    IF types = <<>> THEN {<<>>}
    ELSE {Append(r, p) : r \in Rows(Front(types)), p \in Pats(Last(types))}

RECURSIVE SeqsUpTo(_, _)
\* the sequences over S of length at most n
SeqsUpTo(S, n) ==
    IF n = 0 THEN {<<>>}
    ELSE LET shorter == SeqsUpTo(S, n - 1)
         IN  shorter \cup {Append(m, r) : m \in {x \in shorter : Len(x) = n - 1}, r \in S}

\* the column types of the matrices explored
ColumnTypes ==
    {<<"Bool">>, <<"Opt">>, <<"Shape">>, <<"Pair">>, <<"Int">>, <<"List">>,
     <<"Bool", "Opt">>}

Contexts == {"BadArg", "BadDestruct", "BadCase"}

(***************************************************************************)
(* State: one call of the library on an input the compiler built.          *)
(***************************************************************************)
VARIABLES
    ty,         \* the types of the matrix's columns
    matrix,     \* the branches, one row each
    op,         \* "idle", or the entry point that was called
    vector,     \* the candidate row given to is_useful
    context,    \* the Context given to check
    result,     \* what the call returned
    stack,      \* the frames of a call that is run step by step, innermost last
    ret         \* Option: the value the callee just returned to the top frame

vars == <<ty, matrix, op, vector, context, result, stack, ret>>

Region == "region"

Init ==
    /\ ty \in ColumnTypes
    /\ matrix \in SeqsUpTo(Rows(ty), MaxRows)
    /\ op = "idle"
    /\ vector = <<>>
    /\ context = "BadCase"
    /\ result = Returned(Ok) \* not meaningful while op = "idle"
    /\ stack = <<>>
    /\ ret = <<>>

\* check(region, context, matrix); its callers pass one-column matrices
Check(c) ==
    /\ op = "idle"
    /\ Len(ty) = 1
    /\ op' = "check"
    /\ context' = c
    /\ result' \in check(Region, c, matrix)
    /\ UNCHANGED <<ty, matrix, vector, stack, ret>>

\* is_useful(matrix, vector)
IsUseful(v) ==
    /\ op = "idle"
    /\ op' = "is_useful"
    /\ vector' = v
    /\ result' \in is_useful(matrix, v)
    /\ UNCHANGED <<ty, matrix, context, stack, ret>>

\* is_exhaustive(matrix, n) on a matrix of n columns
IsExhaustive ==
    /\ op = "idle"
    /\ op' = "is_exhaustive"
    /\ result' \in is_exhaustive(matrix, Len(ty))
    /\ UNCHANGED <<ty, matrix, vector, context, stack, ret>>

Next ==
    \/ \E c \in Contexts : Check(c)
    \/ \E v \in Rows(ty) : IsUseful(v)
    \/ IsExhaustive

Spec == Init /\ [][Next]_vars

TypeOK ==
    /\ op \in {"idle", "check", "is_useful", "is_exhaustive", "run_is_useful",
               "ran_is_useful", "run_is_exhaustive", "ran_is_exhaustive"}
    /\ result.panic \in BOOLEAN

(***************************************************************************)
(* Input the type checker is trusted never to produce: the functions take  *)
(* any Vec<Vec<Pattern>>.                                                  *)
(***************************************************************************)
\* the patterns of a union type, and patterns that do not belong in its
\* column: a literal, a list, constructors with one argument too many or too
\* few, constructors of another union
IllPats(t) ==
    Pats(t)
      \cup {Literal(1), List(Exact(0), <<>>)}
      \cup {Ctor(UnionOf(t), TypeAlts(t)[i].ctor.tag_id,
                 Repeat(Anything, TypeAlts(t)[i].ctor.arity + 1)) :
              i \in 1..Len(TypeAlts(t))}
      \cup {Ctor(UnionOf(t), TypeAlts(t)[i].ctor.tag_id,
                 Repeat(Anything, TypeAlts(t)[i].ctor.arity - 1)) :
              i \in {j \in 1..Len(TypeAlts(t)) : TypeAlts(t)[j].ctor.arity > 0}}
      \cup {Ctor(UnionOf("Shape"), TypeAlts("Shape")[i].ctor.tag_id,
                 Repeat(Anything, TypeAlts("Shape")[i].ctor.arity)) :
              i \in 1..Len(TypeAlts("Shape"))}

\* any one-column matrix over these patterns
InitIll ==
    /\ ty \in {<<"Bool">>, <<"Opt">>}
    /\ matrix \in SeqsUpTo({<<p>> : p \in IllPats(ty[1])}, MaxRows)
    /\ op = "idle"
    /\ vector = <<>>
    /\ context = "BadCase"
    /\ result = Returned(Ok)
    /\ stack = <<>>
    /\ ret = <<>>

SpecIll == InitIll /\ [][Next]_vars

(***************************************************************************)
(* is_useful and is_exhaustive run step by step: one step per turn of      *)
(* is_useful's 'outer loop, per iteration of its `for alternative` loop,   *)
(* per call and per return.  A frame holds the locals of one activation.   *)
(***************************************************************************)
\* what one turn of 'outer does
Break(v) == [t |-> "break", val |-> v]

Continue(old_matrix, vec) == [t |-> "continue", old_matrix |-> old_matrix, vector |-> vec]

ForEach(alternatives, old_matrix, vec) ==
    [t |-> "for", alternatives |-> alternatives, old_matrix |-> old_matrix, vector |-> vec]

Unwind == [t |-> "panic"]

\* one turn of 'outer (lib.rs 297-407) up to its break, its next turn, or the
\* entry of the `for alternative in alternatives` loop: the set of what the
\* turn can do, one for each value is_complete can return
outer_turn(old_matrix, vec) ==
    IF old_matrix = <<>> THEN {Break(TRUE)}
    ELSE IF vec = <<>> THEN {Break(FALSE)}
    ELSE
      LET first_pattern == Last(vec)
          popped == Front(vec)
      IN
      CASE first_pattern.k = "Ctor" ->
              LET m == specialize_row_by_ctor2(first_pattern.tag_id,
                           Len(first_pattern.args), old_matrix, <<>>)
              IN  IF m.panic THEN {Unwind}
                  ELSE {Continue(m.val, popped \o first_pattern.args)}
        [] first_pattern.k = "List" ->
              LET m == specialize_row_by_list(first_pattern.arity, old_matrix, <<>>)
              IN  IF m.panic THEN {Unwind}
                  ELSE {Continue(m.val, popped \o first_pattern.args)}
        [] first_pattern.k = "Anything" ->
              {IF ~complete.yes
               THEN Continue(drain([i \in 1..Len(old_matrix) |->
                                       anything_row(old_matrix[i])], <<>>).val, popped)
               ELSE ForEach(complete.alternatives, old_matrix, popped) :
                  complete \in is_complete(old_matrix)}
        [] first_pattern.k = "Literal" ->
              LET m == drain([i \in 1..Len(old_matrix) |->
                                 literal_row(first_pattern.lit, old_matrix[i])], <<>>)
              IN  IF m.panic THEN {Unwind} ELSE {Continue(m.val, popped)}

\* an activation of is_useful: in_for is set while it runs the loop over
\* the alternatives that remain in `alternatives`
UsefulFrame(old_matrix, vec) ==
    [fn |-> "is_useful", old_matrix |-> old_matrix, vector |-> vec,
     in_for |-> FALSE, alternatives |-> <<>>]

\* an activation of is_exhaustive: arm is "entry" before the arms are
\* chosen, then the arm whose recursive call is awaited; alts is the Option
\* of the union the map yielded; the full-coverage arm keeps the
\* alternatives still to do, the one being done and the witnesses collected
ExhaustiveFrame(m, n) ==
    [fn |-> "is_exhaustive", matrix |-> m, n |-> n, arm |-> "entry",
     alts |-> <<>>, todo |-> <<>>, cur |-> <<>>, acc |-> <<>>]

Top == stack[Len(stack)]

\* the stack with its top frame replaced
WithTop(f) == [stack EXCEPT ![Len(stack)] = f]

Ran == IF op = "run_is_useful" THEN "ran_is_useful" ELSE "ran_is_exhaustive"

\* the top activation returns v to its caller, or to the entry point's caller
ReturnValue(v) ==
    IF Len(stack) = 1
    THEN /\ stack' = <<>>
         /\ ret' = <<>>
         /\ op' = Ran
         /\ result' = Returned(v)
    ELSE /\ stack' = Front(stack)
         /\ ret' = <<v>>
         /\ UNCHANGED <<op, result>>

\* internal_error!/panic! unwinds every frame
Unwinding ==
    /\ stack' = <<>>
    /\ ret' = <<>>
    /\ op' = Ran
    /\ result' = Panicked

CallUseful(v) ==
    /\ op = "idle"
    /\ op' = "run_is_useful"
    /\ vector' = v
    /\ stack' = <<UsefulFrame(matrix, v)>>
    /\ UNCHANGED <<ty, matrix, context, result, ret>>

\* one turn of 'outer
UsefulTurn ==
    /\ op = "run_is_useful" /\ stack # <<>> /\ ret = <<>>
    /\ ~Top.in_for
    /\ \E turn \in outer_turn(Top.old_matrix, Top.vector) :
           CASE turn.t = "break" -> ReturnValue(turn.val)
             [] turn.t = "panic" -> Unwinding
             [] turn.t = "continue" ->
                    /\ stack' = WithTop(UsefulFrame(turn.old_matrix, turn.vector))
                    /\ UNCHANGED <<op, result, ret>>
             [] turn.t = "for" ->
                    /\ stack' = WithTop([Top EXCEPT !.in_for = TRUE,
                                                   !.vector = turn.vector,
                                                   !.alternatives = turn.alternatives])
                    /\ UNCHANGED <<op, result, ret>>
    /\ UNCHANGED <<ty, matrix, vector, context>>

\* a for loop that never moves on to the next alternative
rest_of_loop_stuck(alternatives) == alternatives

\* the alternatives left to the for loop once one has been taken
rest_of_loop(alternatives) == Tail(alternatives)

\* `for alternative in alternatives`: the loop ends (break false), or its
\* body specializes for the next alternative and calls is_useful
UsefulFor ==
    /\ op = "run_is_useful" /\ stack # <<>> /\ ret = <<>>
    /\ Top.in_for
    /\ IF Top.alternatives = <<>> THEN ReturnValue(FALSE)
       ELSE LET alternative == Head(Top.alternatives)
                m == specialize_row_by_ctor2(alternative.tag_id, alternative.arity,
                                             Top.old_matrix, <<>>)
            IN  IF m.panic THEN Unwinding
                ELSE /\ stack' = Append(
                            WithTop([Top EXCEPT
                                       !.alternatives = rest_of_loop(Top.alternatives)]),
                            UsefulFrame(m.val,
                                Top.vector \o Repeat(Anything, alternative.arity)))
                     /\ UNCHANGED <<op, result, ret>>
    /\ UNCHANGED <<ty, matrix, vector, context>>

\* `if is_useful(matrix, vector) { break 'outer true; }`
UsefulForReturn ==
    /\ op = "run_is_useful" /\ stack # <<>> /\ ret # <<>>
    /\ IF ret[1] THEN ReturnValue(TRUE)
       ELSE /\ ret' = <<>>
            /\ UNCHANGED <<op, result, stack>>
    /\ UNCHANGED <<ty, matrix, vector, context>>

CallExhaustive ==
    /\ op = "idle"
    /\ op' = "run_is_exhaustive"
    /\ stack' = <<ExhaustiveFrame(matrix, Len(ty))>>
    /\ UNCHANGED <<ty, matrix, vector, context, result, ret>>

\* is_exhaustive up to its return or its first recursive call
ExhaustiveEntry ==
    /\ op = "run_is_exhaustive" /\ stack # <<>> /\ ret = <<>>
    /\ Top.arm = "entry"
    /\ LET m == Top.matrix
           n == Top.n
           ctors == collect_ctors(m)
           num_seen == Cardinality(DOMAIN ctors)
           by_anything == Concat([i \in 1..Len(m) |-> specialize_row_by_anything(m[i])])
       IN  IF m = <<>> THEN ReturnValue(<<Repeat(Anything, n)>>)
           ELSE IF n = 0 THEN ReturnValue(<<>>)
           ELSE IF num_seen = 0 THEN
               /\ stack' = Append(WithTop([Top EXCEPT !.arm = "wild"]),
                                  ExhaustiveFrame(by_anything, n - 1))
               /\ UNCHANGED <<op, result, ret>>
           ELSE \E alts \in first_entry(ctors) :
               IF num_seen < Len(alts.alternatives) THEN
                   /\ stack' = Append(WithTop([Top EXCEPT !.arm = "partial",
                                                         !.alts = <<alts>>]),
                                      ExhaustiveFrame(by_anything, n - 1))
                   /\ UNCHANGED <<op, result, ret>>
               ELSE
                   /\ stack' = WithTop([Top EXCEPT !.arm = "full",
                                                   !.alts = <<alts>>,
                                                   !.todo = alts.alternatives])
                   /\ UNCHANGED <<op, result, ret>>
    /\ UNCHANGED <<ty, matrix, vector, context>>

\* the no-constructor arm after its recursive call (lib.rs 208-212)
ExhaustiveWild ==
    /\ op = "run_is_exhaustive" /\ stack # <<>> /\ ret # <<>>
    /\ Top.arm = "wild"
    /\ ReturnValue([i \in 1..Len(ret[1]) |-> Append(ret[1][i], Anything)])
    /\ UNCHANGED <<ty, matrix, vector, context>>

\* the partial-coverage arm after its recursive call (lib.rs 226-240)
ExhaustivePartial ==
    /\ op = "run_is_exhaustive" /\ stack # <<>> /\ ret # <<>>
    /\ Top.arm = "partial"
    /\ LET ctors == collect_ctors(Top.matrix)
           alts == Top.alts[1]
           last == Concat([i \in 1..Len(alts.alternatives) |->
                              is_missing(alts, ctors, alts.alternatives[i])])
       IN  ReturnValue(Concat([l \in 1..Len(last) |->
                   [r \in 1..Len(ret[1]) |-> Append(ret[1][r], last[l])]]))
    /\ UNCHANGED <<ty, matrix, vector, context>>

\* the full-coverage arm: flat_map is done, or is_alt_exhaustive specializes
\* for the next alternative and calls is_exhaustive (lib.rs 242-247, 257-261)
ExhaustiveFull ==
    /\ op = "run_is_exhaustive" /\ stack # <<>> /\ ret = <<>>
    /\ Top.arm = "full"
    /\ IF Top.todo = <<>> THEN ReturnValue(Top.acc)
       ELSE LET ctor == Head(Top.todo)
                specs == [i \in 1..Len(Top.matrix) |->
                            specialize_row_by_ctor(ctor.tag_id, ctor.arity, Top.matrix[i])]
            IN  IF AnyPanic(specs) THEN Unwinding
                ELSE /\ stack' = Append(
                            WithTop([Top EXCEPT !.todo = Tail(Top.todo),
                                               !.cur = <<ctor>>]),
                            ExhaustiveFrame(Concat(Vals(specs)), ctor.arity + Top.n - 1))
                     /\ UNCHANGED <<op, result, ret>>
    /\ UNCHANGED <<ty, matrix, vector, context>>

\* is_alt_exhaustive after its recursive call (lib.rs 249-254)
ExhaustiveFullReturn ==
    /\ op = "run_is_exhaustive" /\ stack # <<>> /\ ret # <<>>
    /\ Top.arm = "full"
    /\ LET ctor == Top.cur[1]
           alts == Top.alts[1]
           recovered == [i \in 1..Len(ret[1]) |->
                            recover_ctor(alts, ctor.tag_id, ctor.arity, ret[1][i])]
       IN  IF AnyPanic(recovered) THEN Unwinding
           ELSE /\ stack' = WithTop([Top EXCEPT !.acc = Top.acc \o Vals(recovered)])
                /\ ret' = <<>>
                /\ UNCHANGED <<op, result>>
    /\ UNCHANGED <<ty, matrix, vector, context>>

Step ==
    \/ UsefulTurn
    \/ UsefulFor
    \/ UsefulForReturn
    \/ ExhaustiveEntry
    \/ ExhaustiveWild
    \/ ExhaustivePartial
    \/ ExhaustiveFull
    \/ ExhaustiveFullReturn

NextSteps ==
    \/ \E v \in Rows(ty) : CallUseful(v)
    \/ CallExhaustive
    \/ Step

\* the column types of the calls that are run step by step
StepColumnTypes == {<<"Bool">>, <<"Opt">>, <<"Pair">>, <<"Int">>, <<"List">>, <<"Bool", "Bool">>}

\* the most rows of a matrix that is run step by step (a list column has the
\* most patterns, so it gets one row less)
StepRows(t) == IF t = <<"List">> THEN MaxRows - 2 ELSE MaxRows - 1

InitSteps ==
    /\ ty \in StepColumnTypes
    /\ matrix \in SeqsUpTo(Rows(ty), StepRows(ty))
    /\ op = "idle"
    /\ vector = <<>>
    /\ context = "BadCase"
    /\ result = Returned(Ok)
    /\ stack = <<>>
    /\ ret = <<>>

\* a running call always takes its next step (synchronous, single-threaded)
SpecSteps == InitSteps /\ [][NextSteps]_vars /\ WF_vars(Step)

(***************************************************************************)
(* Reference semantics for the properties: the values of a type and what   *)
(* a pattern matches (spec section 3).  Integers beyond the literals used  *)
(* and lists one longer than every pattern's minimum length stand for the  *)
(* rest of the infinite domains.                                           *)
(***************************************************************************)
RECURSIVE Values(_), ValueRows(_)
Values(t) ==
    CASE t = "Int" -> 1..(NumLits + 1)
      [] t = "List" -> SeqsUpTo(Values("Bool"), MaxListLen + 1)
      [] OTHER -> UNION {{[tag_id |-> TypeAlts(t)[i].ctor.tag_id, args |-> a] :
                            a \in ValueRows(TypeAlts(t)[i].arg_types)} :
                         i \in 1..Len(TypeAlts(t))}

ValueRows(types) ==
    IF types = <<>> THEN {<<>>}
    ELSE {Append(r, v) : r \in ValueRows(Front(types)), v \in Values(Last(types))}

RECURSIVE Matches(_, _)
Matches(p, v) ==
    CASE p.k = "Anything" -> TRUE
      [] p.k = "Literal" -> v = p.lit
      [] p.k = "Ctor" -> /\ v.tag_id = p.tag_id
                         /\ \A i \in 1..Len(p.args) : Matches(p.args[i], v.args[i])
      [] p.k = "List" ->
            IF p.arity.kind = "Exact"
            THEN /\ Len(v) = p.arity.n
                 /\ \A i \in 1..Len(v) : Matches(p.args[i], v[i])
            ELSE /\ Len(v) >= p.arity.before + p.arity.after
                 /\ \A i \in 1..p.arity.before : Matches(p.args[i], v[i])
                 /\ \A j \in 1..p.arity.after :
                        Matches(p.args[p.arity.before + j], v[Len(v) - p.arity.after + j])

RowMatches(row, vs) == \A i \in 1..Len(row) : Matches(row[i], vs[i])

\* some row of the matrix matches the value tuple
Covered(m, vs) == \E i \in 1..Len(m) : RowMatches(m[i], vs)

(***************************************************************************)
(* Properties.                                                             *)
(***************************************************************************)
RemoveAt(s, i) == SubSeq(s, 1, i - 1) \o SubSeq(s, i + 1, Len(s))

AllUnion(types) == \A i \in 1..Len(types) : types[i] \in UnionTypes

\* check reported exactly one Incomplete error carrying the call's region and
\* context and at least one witness
IsIncomplete(r) ==
    /\ ~r.panic
    /\ r.val.tag = "Err"
    /\ Len(r.val.errors) = 1
    /\ r.val.errors[1].error = "Incomplete"
    /\ r.val.errors[1].region = Region
    /\ r.val.errors[1].context = context
    /\ r.val.errors[1].heads # <<>>

\* the witnesses check reported
Witnesses(r) == r.val.errors[1].heads

Some(p) == Ctor(UnionOf("Opt"), 0, <<p>>)

None == Ctor(UnionOf("Opt"), 1, <<>>)

True == Ctor(UnionOf("Bool"), 0, <<>>)

False == Ctor(UnionOf("Bool"), 1, <<>>)

\* C1: on a one-column matrix of wildcard and constructor patterns over a
\* complete union, check returns Ok exactly when every value of the column's
\* type is matched by some row, and an Incomplete error otherwise.
C1_CheckDecidesCoverage ==
    (op = "check" /\ AllUnion(ty)) =>
        IF \A v \in Values(ty[1]) : Covered(matrix, <<v>>)
        THEN result = Returned(Ok)
        ELSE IsIncomplete(result)

\* an exhaustive match on Opt that has no wildcard branch
C1_Witness ==
    /\ op = "check" /\ ty = <<"Opt">>
    /\ result = Returned(Ok)
    /\ \A i \in 1..Len(matrix) : matrix[i][1].k = "Ctor"
    /\ \E i \in 1..Len(matrix) : matrix[i] = <<Some(True)>>

\* C2: is_useful(M, v) is true exactly when some tuple of values is matched by
\* v and by no row of M (wildcard and constructor patterns over complete
\* unions, any width).
C2_UsefulIffUncoveredValue ==
    (op = "is_useful" /\ AllUnion(ty)) =>
        result = Returned(\E vs \in ValueRows(ty) :
                              RowMatches(vector, vs) /\ ~Covered(matrix, vs))

\* a two-column vector of constructor patterns, each of which occurs in its
\* column of the matrix, that is useful all the same
C2_Witness ==
    /\ op = "is_useful" /\ Len(ty) = 2
    /\ result = Returned(TRUE)
    /\ \A c \in 1..2 : /\ vector[c].k = "Ctor"
                       /\ \E i \in 1..Len(matrix) : matrix[i][c] = vector[c]

\* C3: for one-column matrices of list patterns with wildcard elements (or
\* wildcards), is_useful(M, v) is true exactly when some list is matched by v
\* and by no row of M.
C3_ListUsefulIffUncoveredList ==
    (op = "is_useful" /\ ty = <<"List">>) =>
        result = Returned(\E l \in Values("List") :
                              Matches(vector[1], l) /\ ~Covered(matrix, <<l>>))

\* C4: every witness that check reports for a one-column matrix is useful
\* against that matrix.
C4_WitnessesAreUseful ==
    (op = "check" /\ ~result.panic /\ result.val.tag = "Err") =>
        \A i \in 1..Len(Witnesses(result)) :
            is_useful(matrix, <<Witnesses(result)[i]>>) = {Returned(TRUE)}

\* a witness rebuilt by the full-coverage arm around a nested constructor
C4_Witness ==
    /\ op = "check" /\ IsIncomplete(result)
    /\ \E i \in 1..Len(Witnesses(result)) :
          /\ Witnesses(result)[i].k = "Ctor"
          /\ \E j \in 1..Len(Witnesses(result)[i].args) :
                Witnesses(result)[i].args[j].k = "Ctor"

\* one row per alternative of the union, each with wildcard arguments, in
\* some order
IsIdentityMatrix(m, union) ==
    /\ Len(m) = Len(union.alternatives)
    /\ {m[i] : i \in 1..Len(m)} =
          {<<Ctor(union, union.alternatives[i].tag_id,
                  Repeat(Anything, union.alternatives[i].arity))>> :
             i \in 1..Len(union.alternatives)}

\* C5: the matrix with one row Ctor(U, c.tag_id, wildcards) per alternative c
\* of a union U is exhaustive: check returns Ok.
C5_ExhaustiveIdentity ==
    (op = "check" /\ AllUnion(ty) /\ IsIdentityMatrix(matrix, UnionOf(ty[1]))) =>
        result = Returned(Ok)

\* the identity matrix of the three-alternative union, checked
C5_Witness ==
    /\ op = "check" /\ ty = <<"Shape">>
    /\ IsIdentityMatrix(matrix, UnionOf("Shape"))
    /\ result = Returned(Ok)

\* C6: if check returns Ok on a one-column matrix, it returns Ok on the
\* matrix with one more row inserted at any position.
C6_ExhaustiveMonotone ==
    (op = "check" /\ \E i \in 1..Len(matrix) :
                        check(Region, context, RemoveAt(matrix, i)) = {Returned(Ok)}) =>
        result = Returned(Ok)

\* a constructor row inserted in front of an exhaustive matrix that has no
\* wildcard row
C6_Witness ==
    /\ op = "check" /\ result = Returned(Ok)
    /\ Len(matrix) >= 3
    /\ \A i \in 1..Len(matrix) : matrix[i][1].k = "Ctor"
    /\ check(Region, context, RemoveAt(matrix, 1)) = {Returned(Ok)}

\* C7: a vector that is useful against a matrix is useful against the matrix
\* with any one row removed (hence against every sub-matrix).
C7_UsefulAntitone ==
    (op = "is_useful" /\ result = Returned(TRUE)) =>
        \A i \in 1..Len(matrix) : is_useful(RemoveAt(matrix, i), vector) = {Returned(TRUE)}

\* a vector still useful after two rows that each overlap it
C7_Witness ==
    /\ op = "is_useful" /\ result = Returned(TRUE)
    /\ Len(matrix) >= 2
    /\ vector[Len(vector)].k = "Anything"
    /\ \E i \in 1..Len(matrix) : Last(matrix[i]).k = "Ctor"

\* the tag ids of the constructor patterns in the matrix's column
UsedTags(m) == {m[i][1].tag_id : i \in {j \in 1..Len(m) : m[j][1].k = "Ctor"}}

RECURSIVE MissingPatterns(_, _, _)
\* Ctor(U, c.tag_id, wildcards) for the alternatives c, from the i-th on, that
\* are not in used
MissingPatterns(union, used, i) ==
    IF i > Len(union.alternatives) THEN <<>>
    ELSE LET c == union.alternatives[i]
         IN  (IF c.tag_id \in used THEN <<>>
              ELSE <<[k |-> "Ctor", union |-> union, tag_id |-> c.tag_id,
                      args |-> [j \in 1..c.arity |-> [k |-> "Anything"]]]>>)
             \o MissingPatterns(union, used, i + 1)

\* C8: a one-column matrix without a wildcard row whose constructor rows use
\* a non-empty strict subset of a union's alternatives is reported Incomplete
\* with exactly one witness Ctor(U, c.tag_id, wildcards) per absent
\* alternative c, in the order of U.alternatives.
C8_PartialCoverageWitnesses ==
    (/\ op = "check" /\ AllUnion(ty)
     /\ matrix # <<>>
     /\ \A i \in 1..Len(matrix) : matrix[i][1].k = "Ctor"
     /\ Cardinality(UsedTags(matrix)) < Len(UnionOf(ty[1]).alternatives)) =>
        result = Returned(Err(<<Incomplete(Region, context,
                     MissingPatterns(UnionOf(ty[1]), UsedTags(matrix), 1))>>))

\* two alternatives, one of arity 1 and one of arity 2, are absent
C8_Witness ==
    /\ op = "check" /\ ty = <<"Shape">>
    /\ matrix # <<>>
    /\ UsedTags(matrix) = {0}
    /\ \A i \in 1..Len(matrix) : matrix[i][1].k = "Ctor"
    /\ IsIncomplete(result) /\ Len(Witnesses(result)) = 2

\* the rows of m that can match constructor c, reduced to c's arguments
RECURSIVE ArgRows(_, _)
ArgRows(m, c) ==
    IF m = <<>> THEN <<>>
    ELSE LET p == Head(m)[1]
         IN  (IF p.k = "Anything" THEN <<[j \in 1..c.arity |-> [k |-> "Anything"]]>>
              ELSE IF p.tag_id = c.tag_id THEN <<p.args>>
              ELSE <<>>)
             \o ArgRows(Tail(m), c)

\* C9: when every alternative of the head union occurs in a one-column
\* matrix, each witness is Ctor(U, c.tag_id, args) with args a witness row of
\* the matrix specialized by c; [[Some(True)],[Some(False)],[None]] is Ok and
\* [[Some(True)],[None]] has the single witness Some(False).
C9_NestedWitnesses ==
    (/\ op = "check" /\ AllUnion(ty)
     /\ Cardinality(UsedTags(matrix)) = Len(UnionOf(ty[1]).alternatives)) =>
        /\ ~result.panic
        /\ result.val.tag = "Err" =>
              /\ IsIncomplete(result)
              /\ \A i \in 1..Len(Witnesses(result)) :
                    LET w == Witnesses(result)[i]
                    IN  /\ w.k = "Ctor"
                        /\ w.union = UnionOf(ty[1])
                        /\ \E a \in 1..Len(w.union.alternatives) :
                              LET c == w.union.alternatives[a]
                              IN  /\ c.tag_id = w.tag_id
                                  /\ \A rest \in is_exhaustive(ArgRows(matrix, c), c.arity) :
                                        /\ ~rest.panic
                                        /\ \E r \in 1..Len(rest.val) : rest.val[r] = w.args
        /\ matrix = << <<Some(True)>>, <<Some(False)>>, <<None>> >> =>
              result = Returned(Ok)
        /\ matrix = << <<Some(True)>>, <<None>> >> =>
              result = Returned(Err(<<Incomplete(Region, context, <<Some(False)>>)>>))

\* the Option scenario with Some(False) left out
C9_Witness ==
    /\ op = "check"
    /\ matrix = << <<Some(True)>>, <<None>> >>
    /\ IsIncomplete(result)

\* C10: a non-empty one-column matrix of literal patterns only is reported
\* Incomplete with the single witness Anything, however many literals it
\* lists.
C10_LiteralsNeverExhaustive ==
    (/\ op = "check"
     /\ matrix # <<>>
     /\ \A i \in 1..Len(matrix) : matrix[i][1].k = "Literal") =>
        result = Returned(Err(<<Incomplete(Region, context, <<[k |-> "Anything"]>>)>>))

\* every literal of the explored range is listed
C10_Witness ==
    /\ op = "check" /\ ty = <<"Int">>
    /\ {matrix[i][1] : i \in 1..Len(matrix)} = {Literal(l) : l \in 1..NumLits}
    /\ IsIncomplete(result)

\* C11: against a matrix that has a row of wildcards only, no vector is
\* useful (constructor, literal, list or wildcard heads, any width).
C11_NothingUsefulAfterCatchAll ==
    (op = "is_useful"
     /\ \E i \in 1..Len(matrix) : \A c \in 1..Len(ty) : matrix[i][c].k = "Anything") =>
        result = Returned(FALSE)

\* a literal branch after a wildcard that itself comes after another literal
C11_Witness ==
    /\ op = "is_useful" /\ ty = <<"Int">>
    /\ Len(matrix) >= 2
    /\ matrix[1][1].k = "Literal" /\ matrix[2][1].k = "Anything"
    /\ vector[1].k = "Literal" /\ vector[1] # matrix[1][1]
    /\ result = Returned(FALSE)

\* C12: is_useful([[List(Exact(0), [])]], [List(Slice(0,0), [])]) returns
\* false, so branch 1 of [[List Exact(0) []], [List Slice(0,0) []]] is
\* Redundant.
C12_SliceAfterExactEmptyNotUseful ==
    (/\ op = "is_useful"
     /\ matrix = << <<List(Exact(0), <<>>)>> >>
     /\ vector = <<List(Slice(0, 0), <<>>)>>) =>
        result = Returned(FALSE)

\* that call, returned
C12_Witness ==
    /\ op = "is_useful"
    /\ matrix = << <<List(Exact(0), <<>>)>> >>
    /\ vector = <<List(Slice(0, 0), <<>>)>>
    /\ ~result.panic /\ result.val = FALSE

\* C13: check returns Ok on a one-column matrix of list patterns, without a
\* wildcard row, whose arities together match every list length, such as
\* [[List Slice(0,0) []]] and [[List Exact(0) []], [List Slice(1,0) [_]]].
C13_ListsExhaustiveWithoutWildcard ==
    (/\ op = "check" /\ ty = <<"List">>
     /\ \A i \in 1..Len(matrix) : matrix[i][1].k = "List"
     /\ \A l \in Values("List") : Covered(matrix, <<l>>)) =>
        result = Returned(Ok)

\* the list arities among the heads of the matrix and of the vector
AritiesInCall ==
    {matrix[i][1].arity : i \in {j \in 1..Len(matrix) : matrix[j][1].k = "List"}}
      \cup {vector[i].arity : i \in {j \in 1..Len(vector) : vector[j].k = "List"}}

\* C14: covers_arity is transitive: if a covers b and b covers c then a
\* covers c (over the arities of the list patterns of a call of is_useful).
C14_CoversArityTransitive ==
    (op = "is_useful" /\ ty = <<"List">>) =>
        \A a, b, c \in AritiesInCall :
            (covers_arity(a, b) /\ covers_arity(b, c)) => covers_arity(a, c)

\* C18: on a one-column matrix, check returns Ok exactly when
\* is_useful(matrix, [Anything]) returns false.
C18_CheckAgreesWithUseful ==
    (op = "is_useful" /\ Len(ty) = 1 /\ vector = <<Anything>>) =>
        /\ ~result.panic
        /\ (result.val = FALSE) <=> (check(Region, context, matrix) = {Returned(Ok)})

\* a wildcard found not useful after constructor rows with nested arguments
\* and no wildcard row
C18_Witness ==
    /\ op = "is_useful" /\ ty = <<"Opt">>
    /\ vector = <<Anything>>
    /\ result = Returned(FALSE)
    /\ \A i \in 1..Len(matrix) : matrix[i][1].k = "Ctor"
    /\ \E i \in 1..Len(matrix) : \E j \in 1..Len(matrix[i][1].args) :
          matrix[i][1].args[j].k = "Ctor"

\* the arity the pattern's union gives its constructor
DeclaredArity(p) ==
    LET alts == p.union.alternatives
    IN  alts[CHOOSE i \in 1..Len(alts) : alts[i].tag_id = p.tag_id].arity

\* the input C15 speaks of (the code has no such test): a constructor column
\* that also holds a literal or a list, or a constructor pattern with the
\* wrong number of arguments
IllFormed(m) ==
    \/ /\ \E i \in 1..Len(m) : m[i][1].k = "Ctor"
       /\ \E i \in 1..Len(m) : m[i][1].k \in {"Literal", "List"}
    \/ \E i \in 1..Len(m) :
          m[i][1].k = "Ctor" /\ Len(m[i][1].args) # DeclaredArity(m[i][1])

\* C15: given a matrix in which a constructor column also holds a literal
\* or a list, or a constructor pattern with the wrong number of arguments,
\* check and is_useful abort; they never return.
C15_IllFormedAlwaysAborts ==
    (op \in {"check", "is_useful"} /\ IllFormed(matrix)) => result.panic

\* C16: every row that is_exhaustive(matrix, n) returns for a well-formed
\* matrix of n columns has width n; so check never fails its debug assertion
\* and never removes from an empty row.
C16_WitnessWidth ==
    /\ op = "is_exhaustive" =>
          /\ ~result.panic
          /\ \A i \in 1..Len(result.val) : Len(result.val[i]) = Len(ty)
    /\ op = "check" => ~result.panic

\* a two-column witness whose last column was rebuilt around a nested
\* constructor by the full-coverage arm
C16_Witness ==
    /\ op = "is_exhaustive" /\ Len(ty) = 2
    /\ ~result.panic
    /\ \E i \in 1..Len(result.val) :
          /\ Len(result.val[i]) = 2
          /\ result.val[i][2].k = "Ctor"
          /\ \E j \in 1..Len(result.val[i][2].args) : result.val[i][2].args[j].k = "Ctor"

\* C17: every call of is_useful and of is_exhaustive on a well-formed matrix
\* (and vector) comes to an end and returns a result.
C17_Terminates ==
    (op \in {"run_is_useful", "run_is_exhaustive"}) ~>
        (op \in {"ran_is_useful", "ran_is_exhaustive"} /\ ~result.panic)

\* the step-by-step run returns what the recursive definition returns
StepsAgree ==
    /\ op = "ran_is_useful" => result \in is_useful(matrix, vector)
    /\ op = "ran_is_exhaustive" => result \in is_exhaustive(matrix, Len(ty))

\* is_useful has returned from a call that went through the recursive calls
\* of the complete-constructor case, where the vector grows by the arity
C17_Witness ==
    /\ op = "ran_is_useful"
    /\ ty = <<"Opt">>
    /\ vector = <<Anything>>
    /\ \A complete \in is_complete(matrix) : complete.yes
    /\ result = Returned(TRUE)

====
